---- MODULE Spec2Model ----
(***************************************************************************)
(* The Pepper fortune teller: the three session scripts (main.py,          *)
(* interactive_chatgpt_main.py, interactive_main.py), the robot backends   *)
(* they drive (TerminalInterface, QiBulletInterface, NAOqiInterface, the   *)
(* pepper_cmd module) and the fortune providers (FortuneGenerator,         *)
(* LLMFortuneGenerator, generate_fortune).                                 *)
(*                                                                         *)
(* Python values.  A string is a sequence of tokens; a token is one        *)
(* whitespace character (WS), one letter, or a word or phrase that the     *)
(* code only ever handles as a whole.  None is the reserved one-token      *)
(* sequence NoneVal.  The outcome of a call into a library or a device     *)
(* (requests.post, ALProxy, setAngles, raw_input, random.choice) is an     *)
(* argument of the operator that models the caller, drawn by the action    *)
(* from the outcomes that call can have.                                   *)
(***************************************************************************)
EXTENDS Integers, Sequences, FiniteSets, TLC

\* ------------------------------------------------------------------ bounds

\* Longest message content the remote service answers with, in tokens.
MaxBodyLen == 2
\* Most invalid answers typed at the terminal touch prompt in one call.
MaxPrompts == 2
\* A joint command fails at its k-th setAngles call, k in 1..MaxFailAt.
MaxFailAt == 2

\* Most fortunes asked for at the menu of interactive_main in one run.
MaxMenuFortunes == 4
\* Most cleanup calls made on one backend object.
MaxCleanups == 2
\* Longest text given to say, in characters.
MaxTextLen == 40

\* ------------------------------------------------------------------ strings

WS == " "
NoneVal == <<"<None>">>
Str(tok) == <<tok>>

\* Python truth value of a string-or-None.
truthy(v) == v # NoneVal /\ v # <<>>

\* a or b
py_or(a, b) == IF truthy(a) THEN a ELSE b

RECURSIVE lstrip(_)
lstrip(s) == IF s # <<>> /\ Head(s) = WS THEN lstrip(Tail(s)) ELSE s

RECURSIVE rstrip(_)
rstrip(s) == IF s # <<>> /\ s[Len(s)] = WS THEN rstrip(SubSeq(s, 1, Len(s) - 1)) ELSE s

\* str.strip()
strip(s) == rstrip(lstrip(s))

LowerTok(t) ==
    CASE t = "HEAD" -> "head"
      [] t = "Left_Hand" -> "left_hand"
      [] t = "Y" -> "y"
      [] t = "N" -> "n"
      [] OTHER -> t

\* str.lower()
lower(s) == [i \in 1..Len(s) |-> LowerTok(s[i])]

\* str.startswith(c) for a one-character c
startswith(s, c) == Len(s) > 0 /\ s[1] = c

\* All strings of at most n tokens over the alphabet A.
RECURSIVE StringsUpTo(_, _)
StringsUpTo(A, n) ==
    IF n = 0 THEN {<<>>}
    ELSE LET S == StringsUpTo(A, n - 1)
         IN  S \cup {Append(s, a) : s \in S, a \in A}

\* ------------------------------------------------------------------ calls

\* One call a backend issues to its device or console.
Act(call, target, x, y) == [call |-> call, target |-> target, x |-> x, y |-> y]

\* What a method call did: the value returned, whether it raised, the device
\* calls it completed, the remote requests it issued, the draws from a local
\* pool it made.
Outcome(value, raised, effects, requests, draws) ==
    [value |-> value, raised |-> raised, blocked |-> FALSE, effects |-> effects,
     requests |-> requests, draws |-> draws]

Returns(value, effects) == Outcome(value, FALSE, effects, 0, 0)
Raises(effects) == Outcome(NoneVal, TRUE, effects, 0, 0)
\* The call has not returned: it still waits for its input or its answer.
Blocked(effects) == [Returns(NoneVal, effects) EXCEPT !.blocked = TRUE]

\* ------------------------------------------------------------------ providers

\* The api_key default of LLMFortuneGenerator.__init__ (a literal key).
DefaultKey == Str("sk-proj-default")
\* The argument was not passed.
Omitted == <<"<omitted>">>

fallback_fortunes ==
    { Str("The stars align in your favor. Success is on the horizon."),
      Str("A surprising opportunity will present itself soon."),
      Str("The path you've chosen is the right one. Continue with confidence."),
      Str("An old friend will reenter your life with good news."),
      Str("Your creativity will lead to an unexpected reward."),
      Str("Be patient. What you seek is coming, but timing is essential."),
      Str("A small change in your routine will lead to great happiness."),
      Str("Trust your intuition on an important decision coming your way."),
      Str("The obstacle you face is actually a blessing in disguise."),
      Str("Your kindness to others will return to you tenfold.") }

PREDEFINED_FORTUNES ==
    { <<"^start(animations/Stand/Gestures/Enthusiastic_4)", WS,
        "I see great happiness in your future!", WS,
        "^wait(animations/Stand/Gestures/Enthusiastic_4)">>,
      <<"^start(animations/Stand/Gestures/ShowSky_1)", WS,
        "The stars align to bring you success in your endeavors.", WS,
        "^wait(animations/Stand/Gestures/ShowSky_1)">>,
      <<"^start(animations/Stand/Gestures/Thinking_1)", WS,
        "Your path will soon become clear to you.", WS,
        "^wait(animations/Stand/Gestures/Thinking_1)">>,
      <<"^start(animations/Stand/Gestures/Excited_1)", WS,
        "An exciting opportunity awaits you!", WS,
        "^wait(animations/Stand/Gestures/Excited_1)">> }

\* The gesture tags the prompt of generate_fortune asks for, and the gestures
\* it lists as available.
GesturePath == "animations/Stand/Gestures/"
start(id) == "^start(" \o GesturePath \o id \o ")"
wait(id) == "^wait(" \o GesturePath \o id \o ")"
AvailableGestures ==
    {"Enthusiastic_4", "ShowSky_1", "Thinking_1", "Hey_1", "Explain_1", "Excited_1"}

\* The tokens of a message content the remote service answers with: white
\* space, plain text, a start tag and a wait tag.
BodyTokens == {WS, "x", start("ShowSky_1"), wait("ShowSky_1")}

\* What requests.post and the decoding of its answer can do: a response with
\* a status code and a message content, a 200 response whose body has no
\* choices[0].message.content (decoding raises), a transport error, or no
\* answer at all (the connection stays open and silent).
RemoteOutcomes ==
    {[kind |-> "response", status |-> 200, content |-> b] :
        b \in StringsUpTo(BodyTokens, MaxBodyLen)}
    \cup {[kind |-> "response", status |-> s, content |-> NoneVal] : s \in {401, 500}}
    \cup {[kind |-> "malformed", status |-> 200, content |-> NoneVal],
          [kind |-> "transport", status |-> 0, content |-> NoneVal],
          [kind |-> "silent", status |-> 0, content |-> NoneVal]}

LLMFortuneGenerator_init(arg, env) ==
    LET given == IF arg = Omitted THEN DefaultKey ELSE arg
        api_key == py_or(given, env)
    IN  [api_key |-> api_key, use_fallback |-> ~truthy(api_key)]

\* random.choice(self.fallback_fortunes); pick is the element drawn.
LLM_get_fallback_fortune(self, pick) == Outcome(pick, FALSE, <<>>, 0, 1)

\* As _generate_llm_fortune, but a non-success status is retried once.
LLM_generate_llm_fortune_retry(self, question_type, remote) ==
    IF remote.kind = "silent"
    THEN [Blocked(<<>>) EXCEPT !.requests = 1]
    ELSE IF remote.kind = "transport"
    THEN Outcome(NoneVal, TRUE, <<>>, 1, 0)
    ELSE IF remote.status = 200
         THEN IF remote.kind = "malformed"
              THEN Outcome(NoneVal, TRUE, <<>>, 1, 0)
              ELSE Outcome(strip(remote.content), FALSE, <<>>, 1, 0)
         ELSE Outcome(NoneVal, TRUE, <<>>, 2, 0)

LLM_generate_llm_fortune(self, question_type, remote) ==
    IF remote.kind = "silent"
    THEN [Blocked(<<>>) EXCEPT !.requests = 1]
    ELSE IF remote.kind = "transport"
    THEN Outcome(NoneVal, TRUE, <<>>, 1, 0)
    ELSE IF remote.status = 200
         THEN IF remote.kind = "malformed"
              THEN Outcome(NoneVal, TRUE, <<>>, 1, 0)
              ELSE Outcome(strip(remote.content), FALSE, <<>>, 1, 0)
         ELSE Outcome(NoneVal, TRUE, <<>>, 1, 0)

LLM_get_fortune(self, question_type, remote, pick) ==
    IF self.use_fallback
    THEN LLM_get_fallback_fortune(self, pick)
    ELSE LET r == LLM_generate_llm_fortune(self, question_type, remote)
         IN  IF r.raised
             THEN LET f == LLM_get_fallback_fortune(self, pick)
                  IN  Outcome(f.value, FALSE, <<>>, r.requests, f.draws)
             ELSE r

\* As the object after get_fortune, with a provider that stays on its pool
\* once a remote request of it has failed.
LLM_get_fortune_self_sticky(self, question_type, remote, pick) ==
    IF ~self.use_fallback /\ LLM_generate_llm_fortune(self, question_type, remote).raised
    THEN [self EXCEPT !.use_fallback = TRUE]
    ELSE self

\* The object after get_fortune: get_fortune, _generate_llm_fortune,
\* _create_fortune_prompt and _get_fallback_fortune read self.use_fallback,
\* self.api_key, self.api_url, self.model and self.fallback_fortunes and
\* assign to no attribute of self, on every path.
LLM_get_fortune_self(self, question_type, remote, pick) == self

generate_fortune(OPENAI_API_KEY, question, remote, pick) ==
    IF ~truthy(OPENAI_API_KEY)
    THEN Outcome(pick, FALSE, <<>>, 0, 1)
    ELSE IF remote.kind = "silent"
         THEN [Blocked(<<>>) EXCEPT !.requests = 1]
    ELSE IF remote.kind = "transport" \/ remote.kind = "malformed"
         THEN Outcome(pick, FALSE, <<>>, 1, 1)
         ELSE IF remote.status = 200
              THEN Outcome(strip(remote.content), FALSE, <<>>, 1, 0)
              ELSE Outcome(pick, FALSE, <<>>, 1, 1)

\* ------------------------------------------------------------------ backends

GestureNames == {"think", "mystic", "explain", "wave"}
sensors == {Str("head"), Str("right_hand"), Str("left_hand"), Str("none")}
Image == <<"<ndarray>">>

\* pepper.setAngles / motion.setAngles(joint, angle, speed) and time.sleep(t);
\* angles, speeds and seconds are written in tenths.
setAngles(joint, angle, speed) == Act("setAngles", joint, angle, speed)
sleep(t) == Act("sleep", "", t, 0)
print(msg) == Act("print", msg, 0, 0)

\* Run a straight-line sequence of device calls in which the failAt-th
\* setAngles call raises (failAt = 0: none does).
RECURSIVE Exec(_, _)
Exec(seq, failAt) ==
    IF seq = <<>> THEN Returns(NoneVal, <<>>)
    ELSE IF Head(seq).call = "setAngles" /\ failAt = 1
         THEN Raises(<<>>)
         ELSE LET rest == Exec(Tail(seq),
                               IF Head(seq).call = "setAngles" /\ failAt > 0
                               THEN failAt - 1 ELSE failAt)
              IN  Outcome(NoneVal, rest.raised, <<Head(seq)>> \o rest.effects, 0, 0)

\* No backend object (the constructor has not returned one).
NoRobot == [class |-> "none", animation |-> FALSE, camera |-> FALSE, touch |-> FALSE]

\* --- TerminalInterface

TerminalInterface_init == [class |-> "TerminalInterface",
                           animation |-> FALSE, camera |-> FALSE, touch |-> FALSE]

Terminal_gesture(gesture_name) ==
    CASE gesture_name = "think" -> <<print("thinking gesture")>>
      [] gesture_name = "mystic" -> <<print("mystical gesture")>>
      [] gesture_name = "explain" -> <<print("explanatory gesture")>>
      [] gesture_name = "wave" -> <<print("waving gesture")>>

TerminalInterface_perform_gesture(self, gesture_name) ==
    IF gesture_name \in GestureNames
    THEN Returns(NoneVal, Terminal_gesture(gesture_name))
    ELSE Returns(NoneVal, <<print("Unknown gesture")>>)

\* lines: what the successive raw_input calls of the loop return; the call
\* waits for more when none of them is accepted.
RECURSIVE TerminalInterface_process_touch(_, _)
TerminalInterface_process_touch(self, lines) ==
    IF lines = <<>> THEN Blocked(<<>>)
    ELSE LET touch_input == lower(strip(Head(lines)))
         IN  IF touch_input \in sensors
             THEN Returns(touch_input, <<>>)
             ELSE LET rest == TerminalInterface_process_touch(self, Tail(lines))
                  IN  [rest EXCEPT !.effects = <<print("Please enter")>> \o @]

TerminalInterface_get_camera_image(self) ==
    Returns(NoneVal, <<print("looking at you")>>)

TerminalInterface_cleanup(self) ==
    Returns(NoneVal, <<print("Shutting down terminal interface...")>>)

\* --- QiBulletInterface

\* min(a, b)
min(a, b) == IF a <= b THEN a ELSE b

\* A text of n characters.
TextOfLen(n) == [i \in 1..n |-> "x"]

\* The body of the loop of say, at index i: the head turns to one side and
\* the script holds 0.3 s.
say_step(i) == <<setAngles("HeadYaw", IF i % 2 = 0 THEN 1 ELSE -1, 2), sleep(3)>>

\* for i in range(n), from index i on
RECURSIVE say_range(_, _)
say_range(i, n) == IF i >= n THEN <<>> ELSE say_step(i) \o say_range(i + 1, n)

\* As say, with one head movement per ten characters and no cap at four.
QiBulletInterface_say_uncapped(self, text, failAt) ==
    Exec(<<print("Pepper says")>>
         \o say_range(0, Len(text) \div 10 + 1)
         \o <<setAngles("HeadYaw", 0, 2)>>, failAt)

QiBulletInterface_say(self, text, failAt) ==
    Exec(<<print("Pepper says")>>
         \o say_range(0, min(4, Len(text) \div 10 + 1))
         \o <<setAngles("HeadYaw", 0, 2)>>, failAt)

QiBulletInterface_init(launch_ok) ==
    IF launch_ok
    THEN Returns([class |-> "QiBulletInterface",
                  animation |-> FALSE, camera |-> FALSE, touch |-> FALSE], <<>>)
    ELSE Outcome(NoRobot, TRUE, <<>>, 0, 0)

QiBullet_thinking_gesture ==
    << print("Thinking"),
       setAngles("HeadPitch", -2, 2), setAngles("RShoulderPitch", 5, 2),
       setAngles("RShoulderRoll", -2, 2), setAngles("RElbowRoll", 10, 2),
       setAngles("RElbowYaw", 10, 2), sleep(10) >>

QiBullet_mystic_gesture ==
    << print("Mystical consultation"),
       setAngles("HeadPitch", -3, 2), setAngles("RShoulderPitch", 2, 2),
       setAngles("RShoulderRoll", -3, 2), setAngles("RElbowRoll", 7, 2),
       setAngles("LShoulderPitch", 2, 2), setAngles("LShoulderRoll", 3, 2),
       setAngles("LElbowRoll", -7, 2), sleep(15) >>

QiBullet_explain_round ==
    << setAngles("RShoulderPitch", 5, 2), setAngles("RShoulderRoll", -2, 2),
       setAngles("RElbowRoll", 5, 2), setAngles("LShoulderPitch", 5, 2),
       setAngles("LShoulderRoll", 2, 2), setAngles("LElbowRoll", -5, 2), sleep(8),
       setAngles("RShoulderPitch", 7, 2), setAngles("LShoulderPitch", 7, 2), sleep(8) >>

QiBullet_explain_gesture ==
    << print("Explaining"), setAngles("HeadPitch", 0, 2) >>
    \o QiBullet_explain_round \o QiBullet_explain_round

wrist_round ==
    << setAngles("RWristYaw", 5, 3), sleep(3), setAngles("RWristYaw", -5, 3), sleep(3) >>

QiBullet_wave_gesture ==
    << print("Waving"),
       setAngles("RShoulderPitch", 5, 2), setAngles("RShoulderRoll", -3, 2),
       setAngles("RElbowRoll", 10, 2), setAngles("RElbowYaw", 10, 2), sleep(5) >>
    \o wrist_round \o wrist_round \o << setAngles("RWristYaw", 0, 3) >>

QiBullet_gestures(gesture_name) ==
    CASE gesture_name = "think" -> QiBullet_thinking_gesture
      [] gesture_name = "mystic" -> QiBullet_mystic_gesture
      [] gesture_name = "explain" -> QiBullet_explain_gesture
      [] gesture_name = "wave" -> QiBullet_wave_gesture

\* As perform_gesture, but the name is looked up without the membership test.
QiBulletInterface_perform_gesture_unchecked(self, gesture_name, failAt) ==
    IF gesture_name \in GestureNames
    THEN Exec(QiBullet_gestures(gesture_name), failAt)
    ELSE Raises(<<>>)

QiBulletInterface_perform_gesture(self, gesture_name, failAt) ==
    IF gesture_name \in GestureNames
    THEN Exec(QiBullet_gestures(gesture_name), failAt)
    ELSE Returns(NoneVal, <<print("Unknown gesture")>>)

\* frame_ok: whether pepper.getCameraFrame and np.array return.
QiBulletInterface_get_camera_image(self, frame_ok) ==
    IF frame_ok THEN Returns(Image, <<Act("getCameraFrame", "2", 0, 0)>>)
    ELSE Returns(NoneVal, <<print("Camera error")>>)

\* random.choice(sensors); pick is the element drawn.
QiBulletInterface_process_touch(self, pick) == Outcome(pick, FALSE, <<>>, 0, 1)

\* stop_ok: whether simulation_manager.stopSimulation(self.client) returns.
\* The effects are the calls issued, the failing one included.
QiBulletInterface_cleanup(self, stop_ok) ==
    Outcome(NoneVal, ~stop_ok, <<Act("stopSimulation", "client", 0, 0)>>, 0, 0)

\* --- NAOqiInterface

\* As __init__, with the optional proxies obtained outside a try block.
NAOqiInterface_init_strict(NAOQI_AVAILABLE, tts_ok, motion_ok, animation_ok, camera_ok, touch_ok, wakeUp_ok) ==
    IF ~NAOQI_AVAILABLE \/ ~tts_ok \/ ~motion_ok \/ ~wakeUp_ok
       \/ ~animation_ok \/ ~camera_ok \/ ~touch_ok
    THEN Outcome(NoRobot, TRUE, <<>>, 0, 0)
    ELSE Returns([class |-> "NAOqiInterface", animation |-> animation_ok,
                  camera |-> camera_ok, touch |-> touch_ok], <<>>)

\* Each flag says whether that import or ALProxy(...) call succeeded.
NAOqiInterface_init(NAOQI_AVAILABLE, tts_ok, motion_ok, animation_ok, camera_ok, touch_ok, wakeUp_ok) ==
    IF ~NAOQI_AVAILABLE \/ ~tts_ok \/ ~motion_ok \/ ~wakeUp_ok
    THEN Outcome(NoRobot, TRUE, <<>>, 0, 0)
    ELSE Returns([class |-> "NAOqiInterface", animation |-> animation_ok,
                  camera |-> camera_ok, touch |-> touch_ok], <<>>)

animations(gesture_name) ==
    CASE gesture_name = "think" -> "animations/Stand/Gestures/Thinking_1"
      [] gesture_name = "mystic" -> "animations/Stand/Gestures/ShowSky_1"
      [] gesture_name = "explain" -> "animations/Stand/Gestures/Explain_1"
      [] gesture_name = "wave" -> "animations/Stand/Gestures/Hey_1"

NAOqi_thinking_gesture ==
    << setAngles("HeadPitch", -2, 2), setAngles("RShoulderPitch", 5, 2),
       setAngles("RShoulderRoll", -2, 2), setAngles("RElbowRoll", 10, 2),
       setAngles("RElbowYaw", 10, 2) >>

NAOqi_mystic_gesture ==
    << setAngles("HeadPitch", -3, 2), setAngles("RShoulderPitch", 2, 2),
       setAngles("RShoulderRoll", -3, 2), setAngles("RElbowRoll", 7, 2),
       setAngles("LShoulderPitch", 2, 2), setAngles("LShoulderRoll", 3, 2),
       setAngles("LElbowRoll", -7, 2) >>

NAOqi_explain_gesture ==
    << setAngles("HeadPitch", 0, 2), setAngles("RShoulderPitch", 5, 2),
       setAngles("RShoulderRoll", -2, 2), setAngles("RElbowRoll", 5, 2),
       setAngles("LShoulderPitch", 5, 2), setAngles("LShoulderRoll", 2, 2),
       setAngles("LElbowRoll", -5, 2) >>

NAOqi_wave_gesture ==
    << setAngles("RShoulderPitch", 5, 2), setAngles("RShoulderRoll", -3, 2),
       setAngles("RElbowRoll", 10, 2), setAngles("RElbowYaw", 10, 2) >>
    \o wrist_round \o wrist_round

\* As perform_gesture, without the return after the animation has run.
NAOqiInterface_perform_gesture_no_return(self, gesture_name, animation_ok, failAt) ==
    LET ran == IF self.animation /\ gesture_name \in GestureNames /\ animation_ok
               THEN <<Act("run", animations(gesture_name), 0, 0)>> ELSE <<>>
        manual == CASE gesture_name = "think" -> Exec(NAOqi_thinking_gesture, failAt)
                    [] gesture_name = "mystic" -> Exec(NAOqi_mystic_gesture, failAt)
                    [] gesture_name = "explain" -> Exec(NAOqi_explain_gesture, failAt)
                    [] gesture_name = "wave" -> Exec(NAOqi_wave_gesture, failAt)
                    [] OTHER -> Returns(NoneVal, <<print("Unknown gesture")>>)
    IN  [manual EXCEPT !.effects = ran \o @]

\* animation_ok: whether self.animation.run(...) returns rather than raises.
NAOqiInterface_perform_gesture(self, gesture_name, animation_ok, failAt) ==
    IF self.animation /\ gesture_name \in GestureNames /\ animation_ok
    THEN Returns(NoneVal, <<Act("run", animations(gesture_name), 0, 0)>>)
    ELSE CASE gesture_name = "think" -> Exec(NAOqi_thinking_gesture, failAt)
           [] gesture_name = "mystic" -> Exec(NAOqi_mystic_gesture, failAt)
           [] gesture_name = "explain" -> Exec(NAOqi_explain_gesture, failAt)
           [] gesture_name = "wave" -> Exec(NAOqi_wave_gesture, failAt)
           [] OTHER -> Returns(NoneVal, <<print("Unknown gesture")>>)

\* NAOqiInterface defines no cleanup: the attribute lookup raises.
NAOqiInterface_cleanup(self) == Raises(<<>>)

\* --- FortuneGenerator (main.py); pick is the element random.choice drew.

FortuneGenerator_get_fortune(self, pick) == Outcome(pick, FALSE, <<>>, 0, 1)

\* What one self.touch.getStatus()[i][1] can do.
StatusReads == {"raise", "pressed", "released"}

\* As process_touch, but a failed read returns None.
NAOqiInterface_process_touch_none(self, head, right_hand, left_hand) ==
    IF ~self.touch THEN Returns(Str("none"), <<>>)
    ELSE IF head = "raise" THEN Returns(NoneVal, <<>>)
    ELSE IF head = "pressed" THEN Returns(Str("head"), <<>>)
    ELSE IF right_hand = "raise" THEN Returns(NoneVal, <<>>)
    ELSE IF right_hand = "pressed" THEN Returns(Str("right_hand"), <<>>)
    ELSE IF left_hand = "raise" THEN Returns(NoneVal, <<>>)
    ELSE IF left_hand = "pressed" THEN Returns(Str("left_hand"), <<>>)
    ELSE Returns(Str("none"), <<>>)

NAOqiInterface_process_touch(self, head, right_hand, left_hand) ==
    IF ~self.touch THEN Returns(Str("none"), <<>>)
    ELSE IF head = "raise" THEN Returns(Str("none"), <<>>)
    ELSE IF head = "pressed" THEN Returns(Str("head"), <<>>)
    ELSE IF right_hand = "raise" THEN Returns(Str("none"), <<>>)
    ELSE IF right_hand = "pressed" THEN Returns(Str("right_hand"), <<>>)
    ELSE IF left_hand = "raise" THEN Returns(Str("none"), <<>>)
    ELSE IF left_hand = "pressed" THEN Returns(Str("left_hand"), <<>>)
    ELSE Returns(Str("none"), <<>>)

\* subscribe_ok, unsubscribe_ok, convert_ok: whether that call returns;
\* frame: what getImageRemote does ("image", "empty" for a falsy value, "raise").
\* The effects are the camera calls issued after a subscription was obtained,
\* the failing one included.
FrameReads == {"image", "empty", "raise"}

\* As get_camera_image, with the conversion of the frame after the try block.
NAOqiInterface_get_camera_image_uncaught(self, subscribe_ok, frame, unsubscribe_ok, convert_ok) ==
    LET subscribeCamera == Act("subscribeCamera", "fortune_teller", 0, 0)
        getImageRemote == Act("getImageRemote", "fortune_teller", 0, 0)
        unsubscribe == Act("unsubscribe", "fortune_teller", 0, 0)
    IN  IF ~self.camera THEN Returns(NoneVal, <<>>)
        ELSE IF ~subscribe_ok THEN Returns(NoneVal, <<>>)
        ELSE IF frame = "raise"
             THEN Returns(NoneVal, <<subscribeCamera, getImageRemote>>)
        ELSE IF ~unsubscribe_ok
             THEN Returns(NoneVal, <<subscribeCamera, getImageRemote, unsubscribe>>)
        ELSE IF frame = "image"
             THEN IF convert_ok
                  THEN Returns(Image, <<subscribeCamera, getImageRemote, unsubscribe>>)
                  ELSE Raises(<<subscribeCamera, getImageRemote, unsubscribe>>)
        ELSE Returns(NoneVal, <<subscribeCamera, getImageRemote, unsubscribe>>)

NAOqiInterface_get_camera_image(self, subscribe_ok, frame, unsubscribe_ok, convert_ok) ==
    LET subscribeCamera == Act("subscribeCamera", "fortune_teller", 0, 0)
        getImageRemote == Act("getImageRemote", "fortune_teller", 0, 0)
        unsubscribe == Act("unsubscribe", "fortune_teller", 0, 0)
    IN  IF ~self.camera THEN Returns(NoneVal, <<>>)
        ELSE IF ~subscribe_ok THEN Returns(NoneVal, <<>>)
        ELSE IF frame = "raise"
             THEN Returns(NoneVal, <<subscribeCamera, getImageRemote>>)
        ELSE IF ~unsubscribe_ok
             THEN Returns(NoneVal, <<subscribeCamera, getImageRemote, unsubscribe>>)
        ELSE IF frame = "image" /\ convert_ok
             THEN Returns(Image, <<subscribeCamera, getImageRemote, unsubscribe>>)
        ELSE Returns(NoneVal, <<subscribeCamera, getImageRemote, unsubscribe>>)

\* ------------------------------------------------------------------ state

VARIABLES
    config,         \* the script run and its environment: script, use_simulation,
                    \* OPENAI_API_KEY (the environment variable), api_key (the
                    \* argument given to LLMFortuneGenerator)
    robot,          \* the backend object: class and optional proxies
    gen,            \* the LLMFortuneGenerator object: api_key, use_fallback
    pc,             \* where the script is
    exc,            \* the exception propagating, "none" when there is none
    fortune_count,  \* run_fortune_teller's counter
    locals,         \* question_type, touch, fortune, response
    trace,          \* the calls of the current turn, in order
    stats,          \* counts over the session
    ret             \* the last method call made directly on an object

vars == <<config, robot, gen, pc, exc, fortune_count, locals, trace, stats, ret>>

NoLocals == [question_type |-> <<>>, touch |-> Str("none"), fortune |-> <<>>,
             response |-> <<>>]
NoStats == [constructed |-> 0, cleanups |-> 0, delivered |-> 0, fortunes |-> 0,
            topics |-> 0, declined |-> 0, failed |-> "none", fell_back |-> FALSE]
\* op: the method; name: the gesture name given; request: the topic given;
\* input: what the environment did during the call; out: its outcome.
NoCall == [op |-> "none", name |-> "", request |-> <<>>, input |-> <<>>,
           out |-> Returns(NoneVal, <<>>)]

\* What the environment variable OPENAI_API_KEY can hold (None: unset).
EnvKeys == {NoneVal, <<>>, Str("sk-env")}
\* What a caller can give as api_key.
ArgKeys == {Omitted, NoneVal, <<>>, Str("sk-user")}
\* Topics a user enters.
Topics == {<<>>, Str("love")}
\* Lines a user types at the touch prompt.
RawTouchInputs ==
    { Str("head"), <<WS, "HEAD", WS>>, Str("right_hand"), Str("Left_Hand"),
      Str("none"), Str("foot"), <<>> }

\* ------------------------------------------------------------------ calls on the objects

\* Every object a constructor can return.
Robots ==
    {TerminalInterface_init}
    \cup {QiBulletInterface_init(TRUE).value}
    \cup {NAOqiInterface_init(TRUE, TRUE, TRUE, a, c, t, TRUE).value :
            a \in BOOLEAN, c \in BOOLEAN, t \in BOOLEAN}

InitCalls ==
    /\ config \in [script : {"none"}, use_simulation : {TRUE},
                   OPENAI_API_KEY : EnvKeys, api_key : ArgKeys]
    /\ robot \in Robots
    /\ gen = LLMFortuneGenerator_init(config.api_key, config.OPENAI_API_KEY)
    /\ pc = "calls"
    /\ exc = "none"
    /\ fortune_count = 0
    /\ locals = NoLocals
    /\ trace = <<>>
    /\ stats = NoStats
    /\ ret = NoCall

\* A call is made when the previous one has returned to its caller, on an
\* object that has not been shut down.
Called(op, name, request, input, out) ==
    /\ pc = "calls"
    /\ ret.op = "none"
    /\ stats.cleanups = 0
    /\ robot.class # "none"
    /\ ret' = [op |-> op, name |-> name, request |-> request, input |-> input,
               out |-> out]
    /\ UNCHANGED <<config, robot, gen, pc, exc, fortune_count, locals, trace, stats>>

\* fortune_gen.get_fortune(question_type): the outcome goes to the caller and
\* the object is as the call leaves it.
Call_LLM_get_fortune ==
    /\ pc = "calls"
    /\ ret.op = "none"
    /\ stats.cleanups = 0
    /\ robot.class # "none"
    /\ \E question_type \in Topics, remote \in RemoteOutcomes, pick \in fallback_fortunes :
        /\ ret' = [op |-> "LLM_get_fortune", name |-> "", request |-> question_type,
                   input |-> remote,
                   out |-> LLM_get_fortune(gen, question_type, remote, pick)]
        /\ gen' = LLM_get_fortune_self(gen, question_type, remote, pick)
    /\ UNCHANGED <<config, robot, pc, exc, fortune_count, locals, trace, stats>>

Call_generate_fortune ==
    /\ pc = "calls"
    /\ ret.op = "none"
    /\ \E question \in Topics, remote \in RemoteOutcomes, pick \in PREDEFINED_FORTUNES :
        Called("generate_fortune", "", question, remote,
               generate_fortune(config.OPENAI_API_KEY, question, remote, pick))

Call_FortuneGenerator_get_fortune ==
    /\ pc = "calls"
    /\ ret.op = "none"
    /\ \E pick \in fallback_fortunes :
        Called("FortuneGenerator_get_fortune", "", <<>>, <<>>,
               FortuneGenerator_get_fortune(gen, pick))

perform_gesture(self, gesture_name, animation_ok, failAt) ==
    CASE self.class = "TerminalInterface" ->
            TerminalInterface_perform_gesture(self, gesture_name)
      [] self.class = "QiBulletInterface" ->
            QiBulletInterface_perform_gesture(self, gesture_name, failAt)
      [] self.class = "NAOqiInterface" ->
            NAOqiInterface_perform_gesture(self, gesture_name, animation_ok, failAt)

Call_perform_gesture ==
    /\ pc = "calls"
    /\ ret.op = "none"
    /\ \E gesture_name \in GestureNames \cup {"dance"}, animation_ok \in BOOLEAN,
       failAt \in 0..MaxFailAt :
        Called("perform_gesture", gesture_name, <<>>,
               [animation_ok |-> animation_ok, failAt |-> failAt],
               perform_gesture(robot, gesture_name, animation_ok, failAt))

Call_Terminal_process_touch ==
    /\ ret.op = "none"
    /\ robot.class = "TerminalInterface"
    /\ \E lines \in StringsUpTo(RawTouchInputs, MaxPrompts + 1) :
        Called("process_touch", "", <<>>, lines,
               TerminalInterface_process_touch(robot, lines))

Call_QiBullet_process_touch ==
    /\ ret.op = "none"
    /\ robot.class = "QiBulletInterface"
    /\ \E pick \in sensors :
        Called("process_touch", "", <<>>, <<>>,
               QiBulletInterface_process_touch(robot, pick))

Call_NAOqi_process_touch ==
    /\ ret.op = "none"
    /\ robot.class = "NAOqiInterface"
    /\ \E head \in StatusReads, right_hand \in StatusReads, left_hand \in StatusReads :
        Called("process_touch", "", <<>>, <<head, right_hand, left_hand>>,
               NAOqiInterface_process_touch(robot, head, right_hand, left_hand))

Call_NAOqi_get_camera_image ==
    /\ ret.op = "none"
    /\ robot.class = "NAOqiInterface"
    /\ \E subscribe_ok \in BOOLEAN, frame \in FrameReads, unsubscribe_ok \in BOOLEAN,
          convert_ok \in BOOLEAN :
        Called("get_camera_image", "", <<>>,
               [subscribe_ok |-> subscribe_ok, frame |-> frame,
                unsubscribe_ok |-> unsubscribe_ok, convert_ok |-> convert_ok],
               NAOqiInterface_get_camera_image(robot, subscribe_ok, frame,
                                               unsubscribe_ok, convert_ok))

Call_QiBullet_get_camera_image ==
    /\ ret.op = "none"
    /\ robot.class = "QiBulletInterface"
    /\ \E frame_ok \in BOOLEAN :
        Called("get_camera_image", "", <<>>, frame_ok,
               QiBulletInterface_get_camera_image(robot, frame_ok))

Call_Terminal_get_camera_image ==
    /\ ret.op = "none"
    /\ robot.class = "TerminalInterface"
    /\ Called("get_camera_image", "", <<>>, <<>>,
              TerminalInterface_get_camera_image(robot))

\* NAOqiInterface(ip=robot_ip): another object is constructed; the flags
\* say which imports and ALProxy calls succeed.
Call_NAOqiInterface_init ==
    /\ pc = "calls"
    /\ ret.op = "none"
    /\ stats.cleanups = 0
    /\ \E sdk \in BOOLEAN, tts \in BOOLEAN, motion \in BOOLEAN, animation \in BOOLEAN,
          camera \in BOOLEAN, touch \in BOOLEAN, wakeUp \in BOOLEAN :
        ret' = [op |-> "NAOqiInterface_init", name |-> "", request |-> <<>>,
                input |-> [NAOQI_AVAILABLE |-> sdk, tts_ok |-> tts, motion_ok |-> motion,
                           animation_ok |-> animation, camera_ok |-> camera,
                           touch_ok |-> touch, wakeUp_ok |-> wakeUp],
                out |-> NAOqiInterface_init(sdk, tts, motion, animation, camera,
                                            touch, wakeUp)]
    /\ UNCHANGED <<config, robot, gen, pc, exc, fortune_count, locals, trace, stats>>

\* robot.say(text) on the simulated backend.
Call_QiBullet_say ==
    /\ ret.op = "none"
    /\ robot.class = "QiBulletInterface"
    /\ \E n \in 0..MaxTextLen, failAt \in 0..MaxFailAt :
        Called("say", "", <<>>, [text |-> TextOfLen(n), failAt |-> failAt],
               QiBulletInterface_say(robot, TextOfLen(n), failAt))

cleanup(self, stop_ok) ==
    CASE self.class = "TerminalInterface" -> TerminalInterface_cleanup(self)
      [] self.class = "QiBulletInterface" -> QiBulletInterface_cleanup(self, stop_ok)
      [] self.class = "NAOqiInterface" -> NAOqiInterface_cleanup(self)

\* robot.cleanup(), also on an object already shut down; stats.cleanups
\* counts the cleanup calls that returned.
Call_cleanup ==
    /\ pc = "calls"
    /\ ret.op = "none"
    /\ stats.cleanups < MaxCleanups
    /\ robot.class # "none"
    /\ \E stop_ok \in BOOLEAN :
        LET out == cleanup(robot, stop_ok)
        IN  /\ ret' = [op |-> "cleanup", name |-> "", request |-> <<>>,
                       input |-> stop_ok, out |-> out]
            /\ stats' = [stats EXCEPT !.cleanups = IF out.raised THEN @ ELSE @ + 1]
    /\ UNCHANGED <<config, robot, gen, pc, exc, fortune_count, locals, trace>>

\* The caller takes the outcome of the call, once the call has returned
\* (stats.fell_back: a get_fortune of the provider object has returned a pool
\* fortune after its remote request failed).
Return ==
    /\ pc = "calls"
    /\ ret.op # "none"
    /\ ~ret.out.blocked
    /\ ret' = NoCall
    /\ stats' = [stats EXCEPT !.fell_back =
                    @ \/ (/\ ret.op = "LLM_get_fortune"
                          /\ ret.out.requests > 0 /\ ret.out.draws > 0)]
    /\ UNCHANGED <<config, robot, gen, pc, exc, fortune_count, locals, trace>>

NextCalls ==
    \/ Return
    \/ Call_LLM_get_fortune
    \/ Call_generate_fortune
    \/ Call_FortuneGenerator_get_fortune
    \/ Call_perform_gesture
    \/ Call_Terminal_process_touch
    \/ Call_QiBullet_process_touch
    \/ Call_NAOqi_process_touch
    \/ Call_NAOqi_get_camera_image
    \/ Call_QiBullet_get_camera_image
    \/ Call_Terminal_get_camera_image
    \/ Call_cleanup
    \/ Call_NAOqiInterface_init
    \/ Call_QiBullet_say

\* The methods of the backends and the providers, called in any order with
\* any arguments on any object a constructor returns.
SpecCalls == InitCalls /\ [][NextCalls]_vars

\* ------------------------------------------------------------------ the sessions

\* max_fortunes of run_fortune_teller
max_fortunes == 3

Scripts == {"main", "interactive_chatgpt_main", "interactive_main"}

MYSTIC_INTROS ==
    { <<"^start(animations/Stand/Gestures/Hey_1)", WS,
        "The stars have aligned for you today...", WS,
        "^wait(animations/Stand/Gestures/Hey_1)">>,
      <<"^start(animations/Stand/Gestures/Thinking_1)", WS,
        "I sense a strong aura around you...", WS,
        "^wait(animations/Stand/Gestures/Thinking_1)">>,
      <<"^start(animations/Stand/Gestures/ShowSky_1)", WS,
        "Let me peer into the cosmic energies...", WS,
        "^wait(animations/Stand/Gestures/ShowSky_1)">>,
      <<"^start(animations/Stand/Gestures/Explain_1)", WS,
        "The mystical forces are speaking to me now...", WS,
        "^wait(animations/Stand/Gestures/Explain_1)">> }

\* Lines a user types when asked for a topic, for details, to continue, and
\* at the menu of interactive_main.
RawTopics == {<<>>, Str("love"), <<WS, "love">>}
RawDetails == {<<>>, <<WS>>, Str("soon")}
RawResponses == {<<"y", "e", "s">>, <<WS, "Y">>, <<"n", "o">>, <<>>}
RawChoices == {Str("1"), Str("2"), Str("3"), Str("4"), <<>>}

\* One call of the script: what is called, what for, and the argument given
\* or the value returned.
Call(call, role, arg) == [call |-> call, role |-> role, arg |-> arg]
say(role, text) == Call("say", role, text)
time_sleep == Call("sleep", "", <<>>)
raw_input(role) == Call("raw_input", role, <<>>)
gesture(gesture_name) == Call("perform_gesture", gesture_name, <<>>)
\* The value a call handed back to the script (here: of get_fortune).
returned(op, value) == Call("returned", op, value)

CountCalls(calls, call) == Cardinality({i \in 1..Len(calls) : calls[i].call = call})
CountRole(calls, role) == Cardinality({i \in 1..Len(calls) : calls[i].role = role})

\* The counts after the calls.
Tally(st, calls) ==
    [st EXCEPT !.delivered = @ + CountRole(calls, "fortune"),
               !.fortunes = @ + CountCalls(calls, "get_fortune"),
               !.topics = @ + CountRole(calls, "ask_topic")]

\* perform_gesture(gesture_name) on the session's robot can raise.
GestureCanRaise(gesture_name) ==
    \E animation_ok \in BOOLEAN, failAt \in 0..MaxFailAt :
        perform_gesture(robot, gesture_name, animation_ok, failAt).raised

\* The exceptions a call of the script can end with.  An interrupt arrives
\* during any call but the robot's process_touch, which catches everything;
\* the providers and the camera methods catch Exception; the terminal
\* backend only prints.
Raisable(c) ==
    CASE c.call = "sleep" -> {"KeyboardInterrupt"}
      [] c.call = "raw_input" -> {"KeyboardInterrupt", "Exception"}
      [] c.call = "say" ->
            IF robot.class = "TerminalInterface" THEN {"KeyboardInterrupt"}
            ELSE {"KeyboardInterrupt", "Exception"}
      [] c.call = "perform_gesture" ->
            {"KeyboardInterrupt"}
            \cup (IF GestureCanRaise(c.role) THEN {"Exception"} ELSE {})
      [] c.call = "get_camera_image" -> {"KeyboardInterrupt"}
      [] c.call = "process_touch" ->
            IF robot.class = "NAOqiInterface" THEN {}
            ELSE IF robot.class = "TerminalInterface"
                 THEN {"KeyboardInterrupt", "Exception"}
                 ELSE {"KeyboardInterrupt"}
      [] c.call = "get_fortune" -> {"KeyboardInterrupt"}
      [] c.call = "showurl" -> {"KeyboardInterrupt"}
      [] c.call = "returned" -> {}
      [] c.call = "print" -> {"KeyboardInterrupt"}
      [] OTHER -> {"KeyboardInterrupt", "Exception"}

\* The script makes the calls in order after those of base.  Either all of
\* them return and the script goes on at nextpc with the new locals and
\* counter, or one of them raises and the exception leaves the try block
\* (stats.failed then names the call that raised).
Advance(base, calls, nextpc, newLocals, newCount, declinedAt) ==
    /\ \/ /\ trace' = base \o calls
          /\ stats' = [Tally(stats, calls) EXCEPT !.declined = declinedAt]
          /\ pc' = nextpc
          /\ locals' = newLocals
          /\ fortune_count' = newCount
          /\ exc' = "none"
       \/ \E k \in 1..Len(calls) : \E kind \in Raisable(calls[k]) :
          /\ trace' = base \o SubSeq(calls, 1, k - 1)
          /\ stats' = [Tally(stats, SubSeq(calls, 1, k - 1))
                          EXCEPT !.failed = calls[k].call]
          /\ pc' = "finally"
          /\ exc' = kind
          /\ UNCHANGED <<locals, fortune_count>>
    /\ UNCHANGED <<config, robot, gen, ret>>

NoGen == [api_key |-> NoneVal, use_fallback |-> TRUE]

Init ==
    /\ config \in [script : Scripts, use_simulation : BOOLEAN,
                   OPENAI_API_KEY : {NoneVal, Str("sk-env")}, api_key : {NoneVal}]
    /\ config.script # "main" => config.use_simulation
    /\ config.script = "main" => config.OPENAI_API_KEY = NoneVal
    /\ robot = NoRobot
    /\ gen = NoGen
    /\ pc = "start"
    /\ exc = "none"
    /\ fortune_count = 0
    /\ locals = NoLocals
    /\ trace = <<>>
    /\ stats = NoStats
    /\ ret = NoCall

\* As the loop test, with <= for <.
LoopHead_inclusive(count) == IF count <= max_fortunes THEN "ask_topic" ELSE "farewell"

\* while fortune_count < max_fortunes
LoopHead(count) == IF count < max_fortunes THEN "ask_topic" ELSE "farewell"

\* As the test after the increment, asking after every turn.
AfterTurn_always(count) == "continue_decision"

\* if fortune_count < max_fortunes, after the increment
AfterTurn(count) == IF count < max_fortunes THEN "continue_decision" ELSE LoopHead(count)

\* As the else branch of the continue decision, without the break.
Break_missing(count) == LoopHead(count)

\* break: the loop is left for the farewell
Break(count) == "farewell"

\* main.py main(): the robot is constructed; a failed construction returns.
Main_construct ==
    /\ pc = "start"
    /\ config.script = "main"
    /\ \E r \in IF config.use_simulation
                THEN {QiBulletInterface_init(ok) : ok \in BOOLEAN}
                ELSE {NAOqiInterface_init(s, t, m, a, c, h, w) :
                        s \in BOOLEAN, t \in BOOLEAN, m \in BOOLEAN, a \in BOOLEAN,
                        c \in BOOLEAN, h \in BOOLEAN, w \in BOOLEAN} :
        IF r.raised
        THEN /\ pc' = "done"
             /\ UNCHANGED <<robot, stats>>
        ELSE /\ pc' = "greet"
             /\ robot' = r.value
             /\ stats' = [stats EXCEPT !.constructed = 1]
    /\ UNCHANGED <<config, gen, exc, fortune_count, locals, trace, ret>>

\* interactive_chatgpt_main.py main(): the key comes from the environment or from the
\* prompt; the generator and the terminal backend are constructed.
Terminal_construct ==
    /\ pc = "start"
    /\ config.script = "interactive_chatgpt_main"
    /\ \E use_api \in RawResponses, typed \in {<<>>, <<WS, "sk-user", WS>>} :
        LET api_key == IF truthy(config.OPENAI_API_KEY) THEN config.OPENAI_API_KEY
                       ELSE IF startswith(lower(strip(use_api)), "y")
                            THEN strip(typed)
                            ELSE config.OPENAI_API_KEY
        IN  /\ config' = [config EXCEPT !.api_key = api_key]
            /\ gen' = LLMFortuneGenerator_init(api_key, config.OPENAI_API_KEY)
    /\ robot' = TerminalInterface_init
    /\ stats' = [stats EXCEPT !.constructed = 1]
    /\ pc' = "greet"
    /\ UNCHANGED <<exc, fortune_count, locals, trace, ret>>

\* interactive_main.py main(): begin(), inside the try block.
Pepper_begin ==
    /\ pc = "start"
    /\ config.script = "interactive_main"
    /\ \/ /\ robot' = [NoRobot EXCEPT !.class = "pepper_cmd"]
          /\ stats' = [stats EXCEPT !.constructed = 1]
          /\ \/ pc' = "setup" /\ exc' = "none"
             \/ pc' = "finally" /\ exc' = "KeyboardInterrupt"
       \/ /\ UNCHANGED <<robot, stats>>
          /\ pc' = "finally"
          /\ exc' \in {"KeyboardInterrupt", "Exception"}
    /\ UNCHANGED <<config, gen, fortune_count, locals, trace, ret>>

\* setup_robot(); an error of the tablet display is caught.
Pepper_setup ==
    /\ pc = "setup"
    /\ Advance(<<>>, <<Call("stand", "", <<>>), Call("setAlive", "", <<>>),
                       Call("showurl", "", <<>>), time_sleep>>,
               "greet", locals, fortune_count, stats.declined)

Greet ==
    /\ pc = "greet"
    /\ IF config.script = "interactive_main"
       THEN Advance(<<>>, <<say("greeting", <<>>)>>, "menu", locals, fortune_count, stats.declined)
       ELSE Advance(<<>>, <<say("greeting", <<>>), time_sleep>>,
                    LoopHead(fortune_count), locals, fortune_count, stats.declined)

AskTopic ==
    /\ pc = "ask_topic"
    /\ IF config.script = "main"
       THEN Advance(<<>>, <<say("ask_topic", <<>>), gesture("think"), time_sleep>>,
                    "capture", NoLocals, fortune_count, stats.declined)
       ELSE \E typed \in RawTopics :
            LET question_type == strip(typed)
            IN  Advance(<<>>,
                        <<say("ask_question", <<>>), raw_input("enter"),
                          gesture("think"), time_sleep,
                          say("ask_topic", <<>>), raw_input("topic"),
                          say("ack_topic", question_type)>>,
                        "ask_detail",
                        [NoLocals EXCEPT !.question_type = question_type],
                        fortune_count, stats.declined)

\* As AskDetail, with the line typed taken as it is.
AskDetail_untrimmed ==
    /\ pc = "ask_detail"
    /\ \E typed \in RawDetails :
        LET more_details == typed
        IN  IF more_details # <<>>
            THEN Advance(trace,
                         <<say("ask_detail", <<>>), raw_input("detail"),
                           returned("detail", typed),
                           say("ack_detail", <<>>)>>,
                         "consult",
                         [locals EXCEPT !.question_type = @ \o <<" - ">> \o more_details],
                         fortune_count, stats.declined)
            ELSE Advance(trace,
                         <<say("ask_detail", <<>>), raw_input("detail"),
                           returned("detail", typed)>>,
                         "consult", locals, fortune_count, stats.declined)

\* The detail prompt; returned("detail", typed) is the line raw_input hands back.
AskDetail ==
    /\ pc = "ask_detail"
    /\ \E typed \in RawDetails :
        LET more_details == strip(typed)
        IN  IF more_details # <<>>
            THEN Advance(trace,
                         <<say("ask_detail", <<>>), raw_input("detail"),
                           returned("detail", typed),
                           say("ack_detail", <<>>)>>,
                         "consult",
                         [locals EXCEPT !.question_type = @ \o <<" - ">> \o more_details],
                         fortune_count, stats.declined)
            ELSE Advance(trace,
                         <<say("ask_detail", <<>>), raw_input("detail"),
                           returned("detail", typed)>>,
                         "consult", locals, fortune_count, stats.declined)

\* main.py: img = robot.get_camera_image()
Capture ==
    /\ pc = "capture"
    /\ \E img \in IF robot.class = "QiBulletInterface"
                  THEN {QiBulletInterface_get_camera_image(robot, ok).value :
                            ok \in BOOLEAN}
                  ELSE {NAOqiInterface_get_camera_image(robot, s, f, u, c).value :
                            s \in BOOLEAN, f \in FrameReads, u \in BOOLEAN,
                            c \in BOOLEAN} :
        Advance(trace,
                <<Call("get_camera_image", "", img)>>
                \o (IF img # NoneVal THEN <<Call("print", "captured", <<>>)>> ELSE <<>>),
                "touch",
                locals, fortune_count, stats.declined)

\* As Consult, with the mystic gesture left out.
Consult_without_gesture ==
    /\ pc = "consult"
    /\ Advance(trace, <<say("consult", <<>>), time_sleep>>,
               IF config.script = "main" THEN "deliver" ELSE "touch",
               locals, fortune_count, stats.declined)

Consult ==
    /\ pc = "consult"
    /\ Advance(trace, <<say("consult", <<>>), gesture("mystic"), time_sleep>>,
               IF config.script = "main" THEN "deliver" ELSE "touch",
               locals, fortune_count, stats.declined)

\* The touch values process_touch can return on the session's robot.
TouchValues ==
    CASE robot.class = "TerminalInterface" ->
            {o.value : o \in {p \in {TerminalInterface_process_touch(robot, lines) :
                                        lines \in StringsUpTo(RawTouchInputs, MaxPrompts + 1)} :
                                ~p.blocked}}
      [] robot.class = "QiBulletInterface" ->
            {QiBulletInterface_process_touch(robot, pick).value : pick \in sensors}
      [] robot.class = "NAOqiInterface" ->
            {NAOqiInterface_process_touch(robot, h, r, l).value :
                h \in StatusReads, r \in StatusReads, l \in StatusReads}

\* As Touch, with the touched zone put into the topic of the question.
Touch_into_topic ==
    /\ pc = "touch"
    /\ \E touch \in TouchValues :
        IF config.script = "main"
        THEN Advance(trace,
                     <<Call("process_touch", "", touch)>>
                     \o (IF touch # Str("none") THEN <<Call("print", "ack_touch", touch)>>
                         ELSE <<>>),
                     "consult",
                     [locals EXCEPT !.touch = touch], fortune_count, stats.declined)
        ELSE Advance(trace,
                     <<say("invite_touch", <<>>), Call("process_touch", "", touch)>>
                     \o (IF touch # Str("none") THEN <<say("ack_touch", touch)>>
                         ELSE <<>>),
                     "deliver",
                     [locals EXCEPT !.touch = touch,
                                    !.question_type = IF touch # Str("none")
                                                      THEN @ \o touch ELSE @],
                     fortune_count, stats.declined)

Touch ==
    /\ pc = "touch"
    /\ \E touch \in TouchValues :
        IF config.script = "main"
        THEN Advance(trace,
                     <<Call("process_touch", "", touch)>>
                     \o (IF touch # Str("none") THEN <<Call("print", "ack_touch", touch)>>
                         ELSE <<>>),
                     "consult",
                     [locals EXCEPT !.touch = touch], fortune_count, stats.declined)
        ELSE Advance(trace,
                     <<say("invite_touch", <<>>), Call("process_touch", "", touch)>>
                     \o (IF touch # Str("none") THEN <<say("ack_touch", touch)>>
                         ELSE <<>>),
                     "deliver", [locals EXCEPT !.touch = touch], fortune_count, stats.declined)

\* The fortunes get_fortune can return in the session (while it has not
\* returned the script stays where it is).
Fortunes ==
    IF config.script = "main"
    THEN {FortuneGenerator_get_fortune(gen, pick).value : pick \in fallback_fortunes}
    ELSE {o.value : o \in {p \in {LLM_get_fortune(gen, locals.question_type, remote, pick) :
                                    remote \in RemoteOutcomes, pick \in fallback_fortunes} :
                            ~p.blocked}}

\* As Deliver, saying the fortune variable as it was before the assignment.
Deliver_stale ==
    /\ pc = "deliver"
    /\ \E fortune \in Fortunes :
        Advance(trace,
                <<Call("get_fortune", "",
                       IF config.script = "main" THEN <<>> ELSE locals.question_type),
                  returned("get_fortune", fortune),
                  say("fortune", locals.fortune), gesture("explain"), time_sleep>>,
                AfterTurn(fortune_count + 1),
                [locals EXCEPT !.fortune = fortune], fortune_count + 1, stats.declined)

Deliver ==
    /\ pc = "deliver"
    /\ \E fortune \in Fortunes :
        Advance(trace,
                <<Call("get_fortune", "",
                       IF config.script = "main" THEN <<>> ELSE locals.question_type),
                  returned("get_fortune", fortune),
                  say("fortune", fortune), gesture("explain"), time_sleep>>,
                AfterTurn(fortune_count + 1),
                [locals EXCEPT !.fortune = fortune], fortune_count + 1, stats.declined)

ContinueDecision ==
    /\ pc = "continue_decision"
    /\ IF config.script = "main"
       THEN Advance(trace,
                    <<say("ask_continue", <<>>), time_sleep, say("ack_continue", <<>>),
                      gesture("wave"), time_sleep>>,
                    LoopHead(fortune_count), locals, fortune_count, stats.declined)
       ELSE \E typed \in RawResponses :
            LET response == lower(strip(typed))
            IN  IF startswith(response, "y")
                THEN Advance(trace,
                             <<say("ask_continue", <<>>), raw_input("continue"),
                               say("ack_continue", <<>>), gesture("wave")>>,
                             LoopHead(fortune_count),
                             [locals EXCEPT !.response = response],
                             fortune_count, stats.declined)
                ELSE Advance(trace,
                             <<say("ask_continue", <<>>), raw_input("continue")>>,
                             Break(fortune_count),
                             [locals EXCEPT !.response = response],
                             fortune_count, fortune_count)

\* interactive_main.py: one round of the while True menu loop, from the
\* prompt to the end of the branch chosen.
Menu ==
    /\ pc = "menu"
    /\ \E typed \in RawChoices :
        CASE typed \in {Str("1"), Str("2")} ->
                /\ stats.fortunes < MaxMenuFortunes
                /\ \E question \in IF typed = Str("1") THEN {<<>>} ELSE Topics,
                      intro \in MYSTIC_INTROS :
                    \E fortune \in
                        {o.value : o \in
                            {p \in {generate_fortune(config.OPENAI_API_KEY, question,
                                                     remote, pick) :
                                        remote \in RemoteOutcomes,
                                        pick \in PREDEFINED_FORTUNES} :
                                ~p.blocked}} :
                        Advance(<<>>,
                                <<raw_input("choice"), raw_input("name")>>
                                \o (IF typed = Str("2") THEN <<raw_input("question")>>
                                    ELSE <<>>)
                                \o <<say("intro", intro),
                                     Call("get_fortune", "", question),
                                     returned("get_fortune", fortune),
                                     say("fortune", fortune), say("conclude", <<>>)>>,
                                "told", [locals EXCEPT !.question_type = question,
                                                       !.fortune = fortune],
                                fortune_count, stats.declined)
          [] typed = Str("3") ->
                Advance(<<>>, <<raw_input("choice"), say("farewell", <<>>)>>,
                        "finally", locals, fortune_count, stats.declined)
          [] OTHER ->
                Advance(<<>>, <<raw_input("choice")>>, "told", locals, fortune_count, stats.declined)

\* while True: the branch taken is finished and the menu is shown again.
MenuLoop ==
    /\ pc = "told"
    /\ pc' = "menu"
    /\ trace' = <<>>
    /\ UNCHANGED <<config, robot, gen, exc, fortune_count, locals, stats, ret>>

Farewell ==
    /\ pc = "farewell"
    /\ Advance(trace, <<say("farewell", <<>>)>>, "finally", locals, fortune_count,
               stats.declined)

\* Whether the finally block of the script calls the release operation
\* (robot.cleanup(), or end()).
Releases ==
    CASE config.script = "main" -> config.use_simulation
      [] config.script = "interactive_chatgpt_main" -> TRUE
      [] config.script = "interactive_main" -> TRUE

\* except KeyboardInterrupt (interactive_main only) and finally.
Finally ==
    /\ pc = "finally"
    /\ stats' = [stats EXCEPT !.cleanups = IF Releases THEN @ + 1 ELSE @]
    /\ exc' = IF config.script = "interactive_main" /\ exc = "KeyboardInterrupt"
              THEN "none" ELSE exc
    /\ pc' = "done"
    /\ UNCHANGED <<config, robot, gen, fortune_count, locals, trace, ret>>

Next ==
    \/ Main_construct
    \/ Terminal_construct
    \/ Pepper_begin
    \/ Pepper_setup
    \/ Greet
    \/ AskTopic
    \/ AskDetail
    \/ Capture
    \/ Consult
    \/ Touch
    \/ Deliver
    \/ ContinueDecision
    \/ Menu
    \/ MenuLoop
    \/ Farewell
    \/ Finally

Spec == Init /\ [][Next]_vars

\* ------------------------------------------------------------------ properties of the sessions

\* The scripts that run run_fortune_teller.
TurnScripts == {"main", "interactive_chatgpt_main"}

\* C1: a session whose backend was constructed ends with the release
\* operation (cleanup, end) called exactly once, however it ends and whichever
\* backend it runs on; it is never called twice.
C1_ShutdownExactlyOnce ==
    /\ stats.cleanups <= 1
    /\ (pc = "done" /\ stats.constructed = 1) => stats.cleanups = 1

\* C2: the turn counter never exceeds max_fortunes, one fortune is spoken
\* per increment, and a session in which the user never declines reaches the
\* farewell with the counter at max_fortunes.
C2_TurnsReachMaximum ==
    config.script \in TurnScripts
    => /\ fortune_count \in 0..max_fortunes
       /\ stats.delivered <= max_fortunes
       /\ exc = "none" => stats.delivered = fortune_count
       /\ exc # "none" => stats.delivered \in {fortune_count, fortune_count + 1}
       /\ (pc = "farewell" /\ stats.declined = 0) => fortune_count = max_fortunes

C2_Witness ==
    /\ config.script = "interactive_chatgpt_main"
    /\ pc = "farewell"
    /\ stats.declined = 0
    /\ fortune_count = max_fortunes
    /\ stats.delivered = max_fortunes

\* C3: once the user has declined after turn k, 1 <= k < max_fortunes, the
\* script is at the farewell or behind it with exactly k fortunes delivered,
\* k topics asked and k get_fortune calls made, and the farewell follows the
\* answer directly.
C3_DeclineEndsSession ==
    stats.declined # 0
    => /\ stats.declined \in 1..(max_fortunes - 1)
       /\ pc \in {"farewell", "finally", "done"}
       /\ fortune_count = stats.declined
       /\ stats.delivered = stats.declined
       /\ stats.fortunes = stats.declined
       /\ stats.topics = stats.declined
       /\ pc = "farewell" => trace[Len(trace)] = raw_input("continue")

C3_Witness ==
    /\ stats.declined = 2
    /\ pc = "done"
    /\ exc = "none"
    /\ stats.delivered = 2
    /\ stats.cleanups = 1

\* ------------------------------------------------------------------ properties of the calls

FortuneOps == {"LLM_get_fortune", "generate_fortune", "FortuneGenerator_get_fortune"}

\* The credential the provider called in ret works with.
Credential ==
    IF ret.op = "LLM_get_fortune" THEN gen.api_key
    ELSE IF ret.op = "generate_fortune" THEN config.OPENAI_API_KEY
    ELSE NoneVal

\* The local pool of the provider called in ret.
Pool == IF ret.op = "generate_fortune" THEN PREDEFINED_FORTUNES ELSE fallback_fortunes

\* The remote call returned a non-success status or raised a transport error.
RemoteFailed(remote) ==
    \/ remote.kind = "transport"
    \/ remote.kind = "response" /\ remote.status # 200

\* How many of the calls in effects are calls of `call`.
Count(effects, call) == Cardinality({i \in 1..Len(effects) : effects[i].call = call})

\* C4: with a credential configured, a get_fortune call whose remote request
\* comes back with a non-success status or a transport error returns a fortune
\* of the local pool, having issued exactly one request and made exactly one
\* draw from the pool.
C4_FailedRemoteFallsBackOnce ==
    (/\ ret.op \in {"LLM_get_fortune", "generate_fortune"}
     /\ truthy(Credential)
     /\ RemoteFailed(ret.input))
    => (/\ ~ret.out.raised
        /\ ret.out.value \in Pool
        /\ ret.out.requests = 1
        /\ ret.out.draws = 1)

C4_Witness ==
    /\ ret.op = "LLM_get_fortune"
    /\ truthy(gen.api_key)
    /\ ret.input.kind = "response" /\ ret.input.status = 500
    /\ ret.out.value \in fallback_fortunes
    /\ ret.out.requests = 1

\* C5: when no credential is given to the provider and none is in the
\* environment, every get_fortune call returns a fortune of the local pool
\* and issues no remote request.
C5_NoCredentialNoRequest ==
    (/\ ret.op \in {"LLM_get_fortune", "generate_fortune"}
     /\ ~truthy(config.OPENAI_API_KEY)
     /\ ret.op = "LLM_get_fortune" => config.api_key \in {Omitted, NoneVal, <<>>})
    => (/\ ~ret.out.raised
        /\ ret.out.value \in Pool
        /\ ret.out.requests = 0)

\* C6: whatever the remote service answers, get_fortune returns a non-empty
\* string.
C6_FortuneNonEmpty ==
    (ret.op \in FortuneOps /\ ~ret.out.blocked)
    => (/\ ~ret.out.raised
        /\ ret.out.value # NoneVal
        /\ ret.out.value # <<>>)

\* C7: perform_gesture with one of the four gesture names returns without
\* raising on every backend, also when the animation player is missing, the
\* canned animation fails or a joint command fails.
C7_KnownGestureNeverRaises ==
    (ret.op = "perform_gesture" /\ ret.name \in GestureNames) => ~ret.out.raised

\* C8: perform_gesture with a name outside the four gesture names issues no
\* joint command and no canned animation and does not raise, on every backend.
C8_UnknownGestureIsNoOp ==
    (ret.op = "perform_gesture" /\ ret.name \notin GestureNames)
    => (/\ ~ret.out.raised
        /\ Count(ret.out.effects, "setAngles") = 0
        /\ Count(ret.out.effects, "run") = 0)

C8_Witness ==
    /\ ret.op = "perform_gesture"
    /\ ret.name = "dance"
    /\ robot.class = "NAOqiInterface" /\ robot.animation
    /\ ret.out.effects = <<print("Unknown gesture")>>

\* The lines before the k-th are all refused by the terminal touch prompt.
Refused(lines, k) == \A i \in 1..(k - 1) : lower(strip(lines[i])) \notin sensors

\* C9: process_touch returns only head, right_hand, left_hand or none.  On
\* the terminal it returns the first accepted line, having asked again after
\* each refused one, and does not return while no line is accepted; on the
\* robot it returns none when there is no touch proxy or when a status read
\* fails.
C9_TouchInVocabulary ==
    ret.op = "process_touch"
    => /\ ~ret.out.raised
       /\ ~ret.out.blocked => ret.out.value \in sensors
       /\ robot.class = "TerminalInterface"
          => LET k == Len(ret.out.effects) + 1
             IN  IF ret.out.blocked
                 THEN Refused(ret.input, Len(ret.input) + 1)
                 ELSE /\ k <= Len(ret.input)
                      /\ Refused(ret.input, k)
                      /\ ret.out.value = lower(strip(ret.input[k]))
       /\ robot.class = "NAOqiInterface"
          => /\ ~robot.touch => ret.out.value = Str("none")
             /\ ret.input[1] = "raise" => ret.out.value = Str("none")
             /\ (ret.input[1] = "released" /\ ret.input[2] = "raise")
                => ret.out.value = Str("none")
             /\ (ret.input[1] = "released" /\ ret.input[2] = "released"
                 /\ ret.input[3] = "raise")
                => ret.out.value = Str("none")

C9_Witness ==
    /\ ret.op = "process_touch"
    /\ robot.class = "TerminalInterface"
    /\ ret.input = <<Str("foot"), <<WS, "HEAD", WS>>>>
    /\ ret.out.value = Str("head")
    /\ Len(ret.out.effects) = 1

\* Second case of C9: the robot's status read fails after the head sensor was
\* read as released.
C9_WitnessRobot ==
    /\ ret.op = "process_touch"
    /\ robot.class = "NAOqiInterface" /\ robot.touch
    /\ ret.input[1] = "released" /\ ret.input[2] = "raise"
    /\ ret.out.value = Str("none")

\* C10: in the robot's get_camera_image every subscription made is
\* unsubscribed before the call returns.
C10_EverySubscriptionReleased ==
    (ret.op = "get_camera_image" /\ robot.class = "NAOqiInterface")
    => Count(ret.out.effects, "subscribeCamera") = Count(ret.out.effects, "unsubscribe")

\* The camera call in ret could not produce a frame: the backend has no camera,
\* or one of the calls it makes failed, or the frame read is empty.
CaptureFailed ==
    CASE robot.class = "TerminalInterface" -> TRUE
      [] robot.class = "QiBulletInterface" -> ~ret.input
      [] robot.class = "NAOqiInterface" ->
            \/ ~robot.camera
            \/ ~ret.input.subscribe_ok
            \/ ret.input.frame # "image"
            \/ ~ret.input.unsubscribe_ok
            \/ ~ret.input.convert_ok

\* C11: on every backend get_camera_image returns an image or None and does
\* not raise; it returns None when the backend has no camera or a call of
\* the capture failed, and the image otherwise.
C11_CaptureReturnsImageOrNone ==
    ret.op = "get_camera_image"
    => /\ ~ret.out.raised
       /\ ret.out.value \in {Image, NoneVal}
       /\ CaptureFailed => ret.out.value = NoneVal
       /\ ~CaptureFailed => ret.out.value = Image

C11_Witness ==
    /\ ret.op = "get_camera_image"
    /\ robot.class = "NAOqiInterface" /\ robot.camera
    /\ ret.input.subscribe_ok /\ ret.input.frame = "image"
    /\ ret.input.unsubscribe_ok /\ ~ret.input.convert_ok
    /\ ~ret.out.raised
    /\ ret.out.value = NoneVal

\* Second case of C11: the simulator has no frame to give.
C11_WitnessSimulated ==
    /\ ret.op = "get_camera_image"
    /\ robot.class = "QiBulletInterface"
    /\ ~ret.input
    /\ ret.out.value = NoneVal

\* ------------------------------------------------------------------ failures in a session

\* The calls of the scripts that make the robot speak or move.
ActuationCalls == {"say", "perform_gesture"}

\* C12: a say or perform_gesture call that fails at runtime does not end the
\* session: no session is left through an error raised by one of them.
C12_ActuationFailureAbsorbed ==
    stats.failed \in ActuationCalls => exc # "Exception"

\* The gesture ids a tag of the model can carry: the published ones and one
\* that is not published.
TagIds == AvailableGestures \cup {"Dance_1"}

\* The gesture-tag grammar: every ^start(id) is followed later in the text by
\* a ^wait(id) with the same id, every ^wait(id) has a ^start(id) before it,
\* and every id is a published one.
WellFormed(text) ==
    \A i \in 1..Len(text), id \in TagIds :
        /\ text[i] = start(id)
           => /\ id \in AvailableGestures
              /\ \E j \in (i + 1)..Len(text) : text[j] = wait(id)
        /\ text[i] = wait(id)
           => /\ id \in AvailableGestures
              /\ \E j \in 1..(i - 1) : text[j] = start(id)

\* C13: in the gesture-aware script (interactive_main) every fortune handed
\* to say is well-formed under the gesture-tag grammar: generated text that
\* violates it has been replaced by a fortune of the local pool.
C13_SpokenFortuneWellFormed ==
    config.script = "interactive_main"
    => \A i \in 1..Len(trace) :
          (trace[i].call = "say" /\ trace[i].role = "fortune")
          => WellFormed(trace[i].arg)

\* C14: every get_fortune call returns, also when the remote service never
\* answers: no call is left waiting for the answer to its request.
C14_GetFortuneReturns ==
    ret.op \in FortuneOps => ~ret.out.blocked

\* The cleanup calls that had returned on the object before the call in ret.
CleanupsBefore == IF ret.out.raised THEN stats.cleanups ELSE stats.cleanups - 1

\* C15: cleanup is idempotent on every backend: a cleanup call made after
\* one that returned does not raise and stops no simulation (the handle is
\* released at most once).
C15_ShutdownIdempotent ==
    (ret.op = "cleanup" /\ CleanupsBefore >= 1)
    => /\ ~ret.out.raised
       /\ Count(ret.out.effects, "stopSimulation") = 0

\* The joint commands of the robot's own gesture methods.
NAOqi_gestures(gesture_name) ==
    CASE gesture_name = "think" -> NAOqi_thinking_gesture
      [] gesture_name = "mystic" -> NAOqi_mystic_gesture
      [] gesture_name = "explain" -> NAOqi_explain_gesture
      [] gesture_name = "wave" -> NAOqi_wave_gesture

\* C16: NAOqiInterface(...) returns an object whenever the SDK, the speech
\* proxy and the motion proxy (with its wakeUp) are there, whichever of the
\* animation, camera and touch proxies fail, and raises without the SDK; the
\* object records each optional proxy as obtained or not, and on an object
\* without one only that capability degrades: perform_gesture runs the joint
\* commands and no animation, get_camera_image returns None without a camera
\* call, process_touch returns none, while a capability that is there works.
C16_OptionalProxiesDegrade ==
    /\ ret.op = "NAOqiInterface_init"
       => /\ (/\ ret.input.NAOQI_AVAILABLE /\ ret.input.tts_ok
              /\ ret.input.motion_ok /\ ret.input.wakeUp_ok)
             => /\ ~ret.out.raised
                /\ ret.out.value.class = "NAOqiInterface"
                /\ ret.out.value.animation = ret.input.animation_ok
                /\ ret.out.value.camera = ret.input.camera_ok
                /\ ret.out.value.touch = ret.input.touch_ok
          /\ ~ret.input.NAOQI_AVAILABLE => ret.out.raised
    /\ (robot.class = "NAOqiInterface" /\ ret.op = "perform_gesture"
        /\ ret.name \in GestureNames)
       => IF robot.animation /\ ret.input.animation_ok
          THEN ret.out.effects = <<Act("run", animations(ret.name), 0, 0)>>
          ELSE /\ Count(ret.out.effects, "run") = 0
               /\ ~ret.out.raised => ret.out.effects = NAOqi_gestures(ret.name)
    /\ (robot.class = "NAOqiInterface" /\ ret.op = "get_camera_image")
       => IF robot.camera
          THEN ~CaptureFailed => ret.out.value = Image
          ELSE ret.out.value = NoneVal /\ ret.out.effects = <<>>
    /\ (robot.class = "NAOqiInterface" /\ ret.op = "process_touch")
       => IF robot.touch
          THEN ret.input[1] = "pressed" => ret.out.value = Str("head")
          ELSE ret.out.value = Str("none")

C16_Witness ==
    /\ ret.op = "NAOqiInterface_init"
    /\ ret.input.NAOQI_AVAILABLE /\ ret.input.tts_ok
    /\ ret.input.motion_ok /\ ret.input.wakeUp_ok
    /\ ~ret.input.animation_ok /\ ~ret.input.camera_ok /\ ret.input.touch_ok
    /\ ~ret.out.raised
    /\ ~ret.out.value.camera /\ ret.out.value.touch

\* Second case of C16: an object without the animation player and without
\* the camera, with the touch proxy, performs a gesture by joint commands.
C16_WitnessDegraded ==
    /\ robot.class = "NAOqiInterface"
    /\ ~robot.animation /\ ~robot.camera /\ robot.touch
    /\ ret.op = "perform_gesture" /\ ret.name = "wave"
    /\ ret.out.effects = NAOqi_wave_gesture

\* ------------------------------------------------------------------ order of the calls in a turn

\* The positions of the turn's calls at which `c` was made.
At(c) == {i \in 1..Len(trace) : trace[i] = c}

\* The positions of the turn's get_fortune calls.
FortuneCalls == {i \in 1..Len(trace) : trace[i].call = "get_fortune"}

\* C17: in every turn of run_fortune_teller perform_gesture("think") has
\* returned before perform_gesture("mystic") is called, and both have
\* returned before get_fortune is called.
C17_ConsultBeforeFortune ==
    config.script \in TurnScripts
    => /\ \A m \in At(gesture("mystic")) : \E t \in At(gesture("think")) : t < m
       /\ \A f \in FortuneCalls :
            \E t \in At(gesture("think")), m \in At(gesture("mystic")) : t < m /\ m < f

C17_Witness ==
    /\ config.script = "main"
    /\ fortune_count = 2
    /\ pc = "continue_decision"
    /\ FortuneCalls # {}
    /\ At(gesture("think")) # {}

\* The turn whose calls are in trace has asked for its topic.
TurnStarted == At(say("ask_topic", <<>>)) # {}

\* The turn's delivery has run to its end: get_fortune, say, the explain
\* gesture and the pause after it.
DeliverComplete ==
    \E f \in FortuneCalls : Len(trace) >= f + 4 /\ trace[f + 4] = time_sleep

\* C18: in every turn of run_fortune_teller get_fortune is called once, the
\* next call is say with exactly the text get_fortune returned, the next is
\* perform_gesture("explain"); and the counter is incremented when this
\* sequence has run to its end and not before.
C18_DeliverSequence ==
    config.script \in TurnScripts
    => /\ Cardinality(FortuneCalls) <= 1
       /\ \A f \in FortuneCalls :
            /\ Len(trace) >= f + 1 /\ trace[f + 1].call = "returned"
            /\ Len(trace) >= f + 2 => trace[f + 2] = say("fortune", trace[f + 1].arg)
            /\ Len(trace) >= f + 3 => trace[f + 3] = gesture("explain")
       /\ \A i \in 1..Len(trace) :
            (trace[i].call = "say" /\ trace[i].role = "fortune")
            => (i - 2) \in FortuneCalls
       /\ \A i \in At(gesture("explain")) : (i - 3) \in FortuneCalls
       /\ TurnStarted
          => fortune_count = (IF DeliverComplete THEN stats.topics ELSE stats.topics - 1)

C18_Witness ==
    /\ config.script = "interactive_chatgpt_main"
    /\ pc = "continue_decision"
    /\ fortune_count = 2
    /\ DeliverComplete
    /\ \E f \in FortuneCalls :
          /\ trace[f + 1].arg = <<"x", start("ShowSky_1")>>
          /\ trace[f + 2] = say("fortune", <<"x", start("ShowSky_1")>>)

\* Second case of C18: the explain gesture is interrupted and the counter
\* stays.
C18_WitnessInterrupted ==
    /\ config.script = "main"
    /\ exc = "KeyboardInterrupt"
    /\ stats.failed = "perform_gesture"
    /\ stats.delivered = 1
    /\ fortune_count = 0

\* The positions of the continue question and of the wave gesture in the
\* turn's calls.
Asked == At(say("ask_continue", <<>>))
Waved == At(gesture("wave"))

\* C19: the turn that brings the counter to max_fortunes is followed by the
\* farewell with no continue question and no wave; after an earlier turn the
\* question is asked exactly once, after the delivery; the wave gesture is
\* performed once when the session continues (in interactive_chatgpt_main:
\* when the answer starts with y) and never after a decline.
C19_ContinueQuestionAndWave ==
    config.script \in TurnScripts
    => /\ Cardinality(Asked) <= 1
       /\ Cardinality(Waved) <= 1
       /\ fortune_count = max_fortunes => (Asked = {} /\ Waved = {})
       /\ Asked # {} => (DeliverComplete /\ fortune_count < max_fortunes)
       /\ \A w \in Waved :
            /\ \E a \in Asked : a < w
            /\ stats.declined = 0
            /\ config.script = "interactive_chatgpt_main"
               => startswith(locals.response, "y")
       /\ (pc = "ask_topic" /\ fortune_count >= 1)
          => (Cardinality(Asked) = 1 /\ Cardinality(Waved) = 1)
       /\ stats.declined # 0
          => (/\ Cardinality(Asked) = 1
              /\ Waved = {}
              /\ ~startswith(locals.response, "y"))

C19_Witness ==
    /\ config.script = "interactive_chatgpt_main"
    /\ pc = "ask_topic"
    /\ fortune_count = 2
    /\ locals.response = <<"y">>
    /\ Cardinality(Waved) = 1

\* Second case of C19: the third turn is over and the farewell is next.
C19_WitnessFinalTurn ==
    /\ config.script = "main"
    /\ pc = "farewell"
    /\ fortune_count = max_fortunes
    /\ DeliverComplete
    /\ Asked = {}

\* ------------------------------------------------------------------ the touch and the request

\* The positions of the turn's process_touch call and of its acknowledgments.
TouchCalls == {i \in 1..Len(trace) : trace[i].call = "process_touch"}
Acks == {i \in 1..Len(trace) : trace[i].role = "ack_touch"}

\* The request the turn's topic and detail make: nothing in main.py, whose
\* get_fortune takes no argument; the topic, with " - " and the detail when
\* there is one, in interactive_chatgpt_main.py.
RequestOfTurn ==
    IF config.script = "main" THEN <<>>
    ELSE LET t == CHOOSE i \in 1..Len(trace) :
                      trace[i].call = "say" /\ trace[i].role = "ack_topic"
             d == CHOOSE i \in 1..Len(trace) :
                      trace[i].call = "returned" /\ trace[i].role = "detail"
         IN  IF strip(trace[d].arg) # <<>>
             THEN trace[t].arg \o <<" - ">> \o strip(trace[d].arg)
             ELSE trace[t].arg

\* What the statement about the touch comes to when the acknowledgment of
\* the zone `touch` is the call Ack(touch).
TouchStatement(Ack(_)) ==
    config.script \in TurnScripts
    => /\ Cardinality(TouchCalls) <= 1
       /\ \A p \in TouchCalls :
            (trace[p].arg # Str("none") /\ Len(trace) > p)
            => trace[p + 1] = Ack(trace[p].arg)
       /\ \A a \in Acks :
            /\ (a - 1) \in TouchCalls
            /\ trace[a - 1].arg # Str("none")
            /\ trace[a] = Ack(trace[a - 1].arg)
       /\ \A f \in FortuneCalls : trace[f].arg = RequestOfTurn

\* The acknowledgment of main.py, a line on the console, and that of
\* interactive_chatgpt_main.py, a say.
Acknowledgment(touch) ==
    IF config.script = "main" THEN Call("print", "ack_touch", touch)
    ELSE say("ack_touch", touch)

Spoken(touch) == say("ack_touch", touch)

\* C20 as stated: a touch other than none is followed by exactly one say
\* that names the zone, none by no acknowledgment; and the request given to
\* get_fortune is the one the topic and the detail make, whatever the touch.
C20_TouchAcknowledgedAloud == TouchStatement(Spoken)

\* C20 as amended: the same, with the acknowledgment of main.py being the
\* console line it prints and that of interactive_chatgpt_main.py the say.
C20_TouchAcknowledgedOnce == TouchStatement(Acknowledgment)

C20_Witness ==
    /\ config.script = "interactive_chatgpt_main"
    /\ \E p \in TouchCalls :
          /\ trace[p].arg = Str("head")
          /\ Len(trace) > p
          /\ trace[p + 1] = say("ack_touch", Str("head"))
    /\ \E f \in FortuneCalls : trace[f].arg = <<"love", " - ", "soon">>

\* Second case of C20: main.py prints the zone and asks for a fortune.
C20_WitnessPrinted ==
    /\ config.script = "main"
    /\ \E p \in TouchCalls :
          Len(trace) > p /\ trace[p + 1] = Call("print", "ack_touch", Str("left_hand"))
    /\ FortuneCalls # {}

\* Third case of C20: no touch, no acknowledgment, the same request.
C20_WitnessNone ==
    /\ config.script = "interactive_chatgpt_main"
    /\ \E p \in TouchCalls : trace[p].arg = Str("none")
    /\ Acks = {}
    /\ \E f \in FortuneCalls : trace[f].arg = <<"love", " - ", "soon">>

\* ------------------------------------------------------------------ the animation and the joint commands

\* s is the beginning of t.
IsPrefix(s, t) == Len(s) <= Len(t) /\ s = SubSeq(t, 1, Len(s))

\* C21: perform_gesture of NAOqiInterface with one of the four names: when
\* the animation player is there and the animation runs, the animation is the
\* only thing done and no joint command is issued; when the player is missing
\* or the animation raises, the joint commands of the method of that name are
\* issued, once and in order (all of them unless a joint command itself
\* fails), and no animation counts as run.
C21_AnimationOrJointCommands ==
    (robot.class = "NAOqiInterface" /\ ret.op = "perform_gesture"
     /\ ret.name \in GestureNames)
    => IF robot.animation /\ ret.input.animation_ok
       THEN /\ ~ret.out.raised
            /\ ret.out.effects = <<Act("run", animations(ret.name), 0, 0)>>
            /\ Count(ret.out.effects, "setAngles") = 0
       ELSE /\ Count(ret.out.effects, "run") = 0
            /\ IsPrefix(ret.out.effects, NAOqi_gestures(ret.name))
            /\ ~ret.out.raised => ret.out.effects = NAOqi_gestures(ret.name)

\* The animation player is there, the animation raises, and the joint
\* commands of the explain gesture are issued once.
C21_Witness ==
    /\ robot.class = "NAOqiInterface" /\ robot.animation
    /\ ret.op = "perform_gesture" /\ ret.name = "explain"
    /\ ~ret.input.animation_ok
    /\ ~ret.out.raised
    /\ ret.out.effects = NAOqi_explain_gesture
    /\ Count(ret.out.effects, "setAngles") = 7

\* Second case of C21: the animation runs and no joint command is issued.
C21_WitnessAnimation ==
    /\ robot.class = "NAOqiInterface" /\ robot.animation
    /\ ret.op = "perform_gesture" /\ ret.name = "wave"
    /\ ret.input.animation_ok
    /\ ret.out.effects = <<Act("run", "animations/Stand/Gestures/Hey_1", 0, 0)>>

\* ------------------------------------------------------------------ the provider after a failure

\* C22: a get_fortune whose remote request failed leaves the provider as it
\* was constructed (the same api_key, the same use_fallback), and a
\* get_fortune made after it on a provider with a credential issues one
\* remote request again: it falls back only if that request fails too.
C22_FallbackForThatRequestOnly ==
    /\ gen = LLMFortuneGenerator_init(config.api_key, config.OPENAI_API_KEY)
    /\ (ret.op = "LLM_get_fortune" /\ stats.fell_back)
       => /\ truthy(gen.api_key)
          /\ ret.out.requests = 1
          /\ (ret.input.kind = "response" /\ ret.input.status = 200)
             => ret.out.draws = 0

\* After a get_fortune that fell back, the next one asks the remote service
\* and returns its answer.
C22_Witness ==
    /\ stats.fell_back
    /\ ret.op = "LLM_get_fortune"
    /\ ret.input.kind = "response" /\ ret.input.status = 200
    /\ ret.out.requests = 1 /\ ret.out.draws = 0
    /\ ret.out.value = Str("x")

\* Second case of C22: two failures in a row, each with its own request.
C22_WitnessAgain ==
    /\ stats.fell_back
    /\ ret.op = "LLM_get_fortune"
    /\ ret.input.kind = "transport"
    /\ ret.out.requests = 1 /\ ret.out.draws = 1

\* ------------------------------------------------------------------ the two backends' joint sequences

\* A step of a gesture: a joint command or a hold (a console line is none).
IsStep(a) == a.call \in {"setAngles", "sleep"}
Steps(effects) == SelectSeq(effects, IsStep)

\* C23: a gesture of one of the four names that NAOqiInterface performs by
\* joint commands issues the joint commands (joint, angle, speed) and the
\* holds of the QiBulletInterface method of that name, in the same order,
\* none dropped and none added; and the other way round.
C23_SequencesAgree ==
    (/\ ret.op = "perform_gesture" /\ ret.name \in GestureNames
     /\ ~ret.out.raised /\ Count(ret.out.effects, "run") = 0)
    => /\ robot.class = "NAOqiInterface"
          => Steps(ret.out.effects) = Steps(QiBullet_gestures(ret.name))
       /\ robot.class = "QiBulletInterface"
          => Steps(ret.out.effects) = Steps(NAOqi_gestures(ret.name))

\* ------------------------------------------------------------------ the end of a session

\* The positions of the closing utterance and of the calls that speak or
\* move the robot.
Closings == {i \in 1..Len(trace) : trace[i].call = "say" /\ trace[i].role = "farewell"}
SpeakOrGesture == {i \in 1..Len(trace) : trace[i].call \in {"say", "perform_gesture"}}

\* The session has left its loop without an exception: all turns were
\* completed, or the user declined.
EndedNormally ==
    /\ config.script \in TurnScripts
    /\ stats.constructed = 1
    /\ pc \in {"finally", "done"}
    /\ exc = "none"

\* The closing utterance is spoken once, after the explain gesture of the
\* last turn, nothing is said or gestured after it, and the release
\* operation has not been called before it.
ClosingOnce ==
    /\ Cardinality(Closings) <= 1
    /\ \A c \in Closings :
          /\ \A i \in SpeakOrGesture : i <= c
          /\ \E e \in 1..(c - 1) : trace[e] = gesture("explain")
    /\ (Closings # {} /\ pc # "done") => stats.cleanups = 0
    /\ EndedNormally => Cardinality(Closings) = 1

\* The session has ended by an error or a cancellation.
EndedAbnormally ==
    /\ pc = "done"
    /\ stats.constructed = 1
    /\ exc # "none" \/ stats.failed # "none"

\* C24: a session of run_fortune_teller that completes its turns or is
\* declined says the farewell exactly once, after the last explain gesture
\* and before the release operation, and says and gestures nothing after it;
\* a session that ends by an error or a cancellation has called the release
\* operation when it is over.
C24_ClosingAndShutdown ==
    /\ config.script \in TurnScripts => ClosingOnce
    /\ EndedAbnormally => stats.cleanups = 1

\* ------------------------------------------------------------------ the topic and the detail

\* The positions of the topic (as acknowledged), of the line typed at the
\* detail prompt and of the acknowledgment of a detail.
TopicAcks == {i \in 1..Len(trace) : trace[i].call = "say" /\ trace[i].role = "ack_topic"}
DetailLines == {i \in 1..Len(trace) : trace[i].call = "returned" /\ trace[i].role = "detail"}
DetailAcks == {i \in 1..Len(trace) : trace[i].call = "say" /\ trace[i].role = "ack_detail"}

\* C25: in interactive_chatgpt_main.py the request given to get_fortune is
\* the topic alone when the line typed at the detail prompt is empty once
\* stripped, and the topic, " - " and the stripped detail otherwise; the
\* acknowledgment of the detail is said once, right after the line was read,
\* in the second case and not at all in the first.
C25_RequestFromTopicAndDetail ==
    config.script = "interactive_chatgpt_main"
    => /\ Cardinality(DetailLines) <= 1
       /\ \A a \in DetailAcks : (a - 1) \in DetailLines
       /\ \A f \in FortuneCalls : DetailLines # {} /\ TopicAcks # {}
       /\ \A d \in DetailLines : \A t \in TopicAcks :
            LET detail == strip(trace[d].arg)
                topic == trace[t].arg
            IN  IF detail = <<>>
                THEN /\ DetailAcks = {}
                     /\ \A f \in FortuneCalls : trace[f].arg = topic
                ELSE /\ Len(trace) > d => DetailAcks = {d + 1}
                     /\ \A f \in FortuneCalls :
                          trace[f].arg = topic \o <<" - ">> \o detail

\* A detail is typed: it is acknowledged and joined to the topic.
C25_Witness ==
    /\ config.script = "interactive_chatgpt_main"
    /\ \E d \in DetailLines : trace[d].arg = Str("soon") /\ DetailAcks = {d + 1}
    /\ \E f \in FortuneCalls : trace[f].arg = <<"love", " - ", "soon">>

\* Second case of C25: only white space is typed; no acknowledgment, and
\* the request is the topic.
C25_WitnessBlank ==
    /\ config.script = "interactive_chatgpt_main"
    /\ \E d \in DetailLines : trace[d].arg = <<WS>>
    /\ DetailAcks = {}
    /\ \E f \in FortuneCalls : trace[f].arg = Str("love")

\* ------------------------------------------------------------------ the menu session

\* C26: a session of interactive_main.py delivers at most max_fortunes
\* fortunes, whatever is chosen at its menu.
C26_MenuFortunesBounded ==
    config.script = "interactive_main" => stats.delivered <= max_fortunes

\* ------------------------------------------------------------------ acquisition and release

\* C27: the release operation (robot.cleanup(), end()) is called only in a
\* run whose acquisition (the backend constructor, begin()) has returned.
C27_ReleaseOnlyAfterAcquisition ==
    stats.cleanups > 0 => stats.constructed = 1

\* ------------------------------------------------------------------ the head while speaking

\* The head movements a text of n characters is spoken with.
HeadMoves(n) == IF n \div 10 + 1 < 4 THEN n \div 10 + 1 ELSE 4

\* C28: say(text) of QiBulletInterface, when its joint commands succeed,
\* turns the head HeadMoves(len(text)) times, to +0.1 first and then to -0.1
\* and +0.1 in turn, holds after each turn, and ends with the command that
\* puts HeadYaw at 0.0; it issues no other joint command, for a text of any
\* length, the empty one included.  When a joint command fails the commands
\* issued are the beginning of that sequence.
C28_HeadBobThenNeutral ==
    (ret.op = "say" /\ robot.class = "QiBulletInterface")
    => LET steps == Steps(ret.out.effects)
           moves == HeadMoves(Len(ret.input.text))
       IN  /\ Len(steps) <= 2 * moves + 1
           /\ \A k \in 1..Len(steps) :
                IF k = 2 * moves + 1 THEN steps[k] = setAngles("HeadYaw", 0, 2)
                ELSE IF k % 2 = 0 THEN steps[k] = sleep(3)
                ELSE steps[k] = setAngles("HeadYaw", IF k % 4 = 1 THEN 1 ELSE -1, 2)
           /\ ~ret.out.raised
              => /\ Len(steps) = 2 * moves + 1
                 /\ Count(ret.out.effects, "setAngles") = moves + 1
                 /\ ret.out.effects[Len(ret.out.effects)] = setAngles("HeadYaw", 0, 2)

\* A text of 25 characters: three head movements, then neutral.
C28_Witness ==
    /\ ret.op = "say" /\ robot.class = "QiBulletInterface"
    /\ Len(ret.input.text) = 25
    /\ ~ret.out.raised
    /\ Steps(ret.out.effects) =
         << setAngles("HeadYaw", 1, 2), sleep(3), setAngles("HeadYaw", -1, 2), sleep(3),
            setAngles("HeadYaw", 1, 2), sleep(3), setAngles("HeadYaw", 0, 2) >>

\* Second case of C28: the empty text, one head movement and neutral.
C28_WitnessEmpty ==
    /\ ret.op = "say" /\ robot.class = "QiBulletInterface"
    /\ ret.input.text = <<>>
    /\ Steps(ret.out.effects) =
         << setAngles("HeadYaw", 1, 2), sleep(3), setAngles("HeadYaw", 0, 2) >>

\* Third case of C28: a text of 40 characters, four head movements.
C28_WitnessLong ==
    /\ ret.op = "say" /\ robot.class = "QiBulletInterface"
    /\ Len(ret.input.text) = 40
    /\ ~ret.out.raised
    /\ Count(ret.out.effects, "setAngles") = 5

====
